---- MODULE Spec2Model ----
(***************************************************************************)
(* Model of src/minesweeper.py: the Minesweeper board, the Sentence        *)
(* constraint type and the MinesweeperAI knowledge base with its closure   *)
(* loop (add_knowledge) and its two move-selection queries.                *)
(*                                                                         *)
(* A Sentence object is a record [cells, count, kb].  cells and count are  *)
(* the object's fields; kb records whether the object is an element of     *)
(* the list self.knowledge, because MinesweeperAI.mark_safe / mark_mine    *)
(* reduce exactly the objects of that list while add_knowledge works on    *)
(* two local lists (knowledge_original, knowledge_modified) which may hold *)
(* objects that are not (yet) in self.knowledge.                           *)
(***************************************************************************)
EXTENDS Integers, FiniteSets, Sequences, TLC

\* Bounds of the exploration
MaxH == 3
MaxW == 3
MaxCells == 9
MaxMines == 2
MaxObs == 3
MaxIter == 10
\* the longer games on one larger board: its size, its mines, the observations
LongH == 4
LongW == 3
LongMines == 2
LongObs == 5
\* cells of the one-row board of the knowledge bases on which the marks are called
MaxMarkCells == 2
\* cells of the one-row board over which single Sentence objects are drawn
MaxSentenceCells == 3

VARIABLES
    height,              \* Minesweeper.height / MinesweeperAI.height
    width,               \* Minesweeper.width / MinesweeperAI.width
    board,               \* Minesweeper.mines: the cells holding a mine
    moves_made,          \* MinesweeperAI.moves_made
    mines,               \* MinesweeperAI.mines
    safes,               \* MinesweeperAI.safes
    knowledge,           \* MinesweeperAI.knowledge
    knowledge_original,  \* local list of add_knowledge
    knowledge_modified,  \* local list of add_knowledge
    aliased,             \* knowledge_original is the same list object as knowledge_modified
    pc,                  \* "idle", "closure", "random" or "raised"
    iter,                \* iterations of the while loop run by the current / last add_knowledge
    calls,               \* number of add_knowledge calls made
    ret,                 \* what the last finished call returned
    last_call,           \* the method called last
    closure_start,       \* the sentences of self.knowledge when the while loop was entered
    arg                  \* the cell passed to the method called last (None: no cell)

vars == <<height, width, board, moves_made, mines, safes, knowledge,
          knowledge_original, knowledge_modified, aliased, pc, iter, calls,
          ret, last_call, closure_start, arg>>

\* the value None of a move-selection call, among cells <<row, column>>
None == <<>>

\* ------------------------------------------------------------------------
\* Minesweeper (the board)

Cells(h, w) == (0 .. h - 1) \X (0 .. w - 1)

InBounds(x, y, h, w) == 0 <= x /\ x < h /\ 0 <= y /\ y < w

is_mine(cell) == cell \in board

nearby_mines(cell) ==
    Cardinality({ c \in ((cell[1] - 1) .. (cell[1] + 1)) \X ((cell[2] - 1) .. (cell[2] + 1)) :
                    /\ c # cell
                    /\ InBounds(c[1], c[2], height, width)
                    /\ c \in board })

\* ------------------------------------------------------------------------
\* Sentence

Sentence(cells, count, kb) == [cells |-> cells, count |-> count, kb |-> kb]

\* Sentence.__eq__
SentenceEq(a, b) == a.cells = b.cells /\ a.count = b.count

\* variant: the cells are returned whatever the count
known_minesAny(s) == s.cells

\* Sentence.known_mines, lines 104-112
known_mines(s) == IF Cardinality(s.cells) = s.count THEN s.cells ELSE {}

\* Sentence.known_safes, lines 114-122
known_safes(s) == IF s.count = 0 THEN s.cells ELSE {}

\* variant: the cell is removed and the count is left as it was
SentenceMarkMineKeep(s, cell) == [s EXCEPT !.cells = @ \ {cell}]

\* variant: the count is decremented whether or not the cell is there
SentenceMarkMineAlways(s, cell) == [s EXCEPT !.cells = @ \ {cell}, !.count = @ - 1]

\* Sentence.mark_mine, lines 124-131
SentenceMarkMine(s, cell) ==
    IF cell \in s.cells
    THEN [s EXCEPT !.cells = @ \ {cell}, !.count = @ - 1]
    ELSE s

\* variant: the count is decremented as it is for a mine
SentenceMarkSafeDec(s, cell) ==
    IF cell \in s.cells
    THEN [s EXCEPT !.cells = @ \ {cell}, !.count = @ - 1]
    ELSE s

\* Sentence.mark_safe, lines 133-139
SentenceMarkSafe(s, cell) ==
    IF cell \in s.cells
    THEN [s EXCEPT !.cells = @ \ {cell}]
    ELSE s

\* ------------------------------------------------------------------------
\* MinesweeperAI.mark_mine / mark_safe: the effect on a list of Sentence
\* objects.  Only the objects of self.knowledge (kb) are visited.

\* variant: only the first sentence of the list is reduced
MarkMineListFirst(list, cell) ==
    IF list = <<>> THEN <<>>
    ELSE <<SentenceMarkMine(Head(list), cell)>> \o Tail(list)

RECURSIVE MarkMineList(_, _)
MarkMineList(list, cell) ==
    IF list = <<>> THEN <<>>
    ELSE <<IF Head(list).kb THEN SentenceMarkMine(Head(list), cell) ELSE Head(list)>>
            \o MarkMineList(Tail(list), cell)

RECURSIVE MarkSafeList(_, _)
MarkSafeList(list, cell) ==
    IF list = <<>> THEN <<>>
    ELSE <<IF Head(list).kb THEN SentenceMarkSafe(Head(list), cell) ELSE Head(list)>>
            \o MarkSafeList(Tail(list), cell)

RECURSIVE MarkSafeAll(_, _)
MarkSafeAll(list, cs) ==
    IF cs = {} THEN list
    ELSE LET c == CHOOSE x \in cs : TRUE
         IN  MarkSafeAll(MarkSafeList(list, c), cs \ {c})

RECURSIVE MarkMineAll(_, _)
MarkMineAll(list, cs) ==
    IF cs = {} THEN list
    ELSE LET c == CHOOSE x \in cs : TRUE
         IN  MarkMineAll(MarkMineList(list, c), cs \ {c})

\* lines 276-282: every new safe cell is marked, then every new mine cell
ApplyMarks(list, new_safes, new_mines) ==
    MarkMineAll(MarkSafeAll(list, new_safes), new_mines)

\* ------------------------------------------------------------------------
\* list.remove(x): removes the first element equal (__eq__) to x, raises
\* ValueError when there is none.

IndexOf(list, s) ==
    IF \E i \in 1 .. Len(list) : SentenceEq(list[i], s)
    THEN CHOOSE i \in 1 .. Len(list) :
            /\ SentenceEq(list[i], s)
            /\ \A j \in 1 .. i - 1 : ~SentenceEq(list[j], s)
    ELSE 0

ListRemove(list, s) ==
    LET i == IndexOf(list, s)
    IN  SubSeq(list, 1, i - 1) \o SubSeq(list, i + 1, Len(list))

\* for x in rems: list.remove(x)
RECURSIVE RemoveEach(_, _)
RemoveEach(list, rems) ==
    IF rems = <<>> THEN [ok |-> TRUE, list |-> list]
    ELSE IF IndexOf(list, Head(rems)) = 0 THEN [ok |-> FALSE, list |-> list]
    ELSE RemoveEach(ListRemove(list, Head(rems)), Tail(rems))

\* list == list of Python: same length and pairwise __eq__
ListEq(a, b) ==
    /\ Len(a) = Len(b)
    /\ \A i \in 1 .. Len(a) : SentenceEq(a[i], b[i])

\* ------------------------------------------------------------------------
\* MinesweeperAI.add_knowledge, lines 196-237: record the move, mark the
\* cell safe, build the new sentence from the unknown neighbours.

Neighbors(cell, h, w) ==
    { c \in ((cell[1] - 1) .. (cell[1] + 1)) \X ((cell[2] - 1) .. (cell[2] + 1)) :
        InBounds(c[1], c[2], h, w) /\ c # cell }

\* variant: only the neighbours known to be safe are dropped
RepeatNeighborsSafes(nbrs, sf, mn) == { n \in nbrs : n \in sf }

\* lines 223-234; sf and mn are self.safes and self.mines
RepeatNeighbors(nbrs, sf, mn) == { n \in nbrs : n \in sf \/ n \in mn }

\* variant: the clue is taken as it is, known mines are not subtracted
AdjustedCountKeep(nbrs, count, sf, mn) == count

\* lines 226-231: count is decremented for a neighbour that is not in
\* self.safes and is in self.mines
AdjustedCount(nbrs, count, sf, mn) ==
    count - Cardinality({ n \in nbrs : n \notin sf /\ n \in mn })

NewSentence(cell, count, sf, mn, h, w) ==
    LET nbrs == Neighbors(cell, h, w)
    IN  Sentence(nbrs \ RepeatNeighbors(nbrs, sf, mn),
                 AdjustedCount(nbrs, count, sf, mn), TRUE)

\* ------------------------------------------------------------------------
\* One iteration of the while loop, lines 244-321.

\* lines 254-274
IsAllSafe(s) == s.count = 0

\* variant: the all-mines test is off by one
IsAllMinesOff(s) == s.count # 0 /\ s.count = Cardinality(s.cells) + 1

IsAllMines(s) == s.count # 0 /\ s.count = Cardinality(s.cells)

NewSafes(list) == UNION { list[i].cells : i \in { k \in 1 .. Len(list) : IsAllSafe(list[k]) } }

NewMines(list) == UNION { list[i].cells : i \in { k \in 1 .. Len(list) : IsAllMines(list[k]) } }

\* sentences_to_remove, in the order of knowledge_original
Resolved(list) ==
    SelectSeq(list, LAMBDA s : IsAllSafe(s) \/ IsAllMines(s))

\* line 298
IsContained(modif, orig) == modif.cells \subseteq orig.cells /\ modif.cells # orig.cells

\* lines 295-298: the sentences of knowledge_modified contained in orig,
\* in list order
ContainedIn(orig, mod) == SelectSeq(mod, LAMBDA modif : IsContained(modif, orig))

\* variant: the count of the contained sentence is not subtracted
DerivedKeep(orig, modif) ==
    Sentence(orig.cells \ modif.cells, orig.count, FALSE)

\* lines 303-306
Derived(orig, modif) ==
    Sentence(orig.cells \ modif.cells, orig.count - modif.count, FALSE)

\* lines 293-301: old_sentences; orig is appended once for every sentence
\* of knowledge_modified it contains
RECURSIVE Repeat(_, _)
Repeat(orig, modifs) ==
    IF modifs = <<>> THEN <<>>
    ELSE <<orig>> \o Repeat(orig, Tail(modifs))

RECURSIVE OldSentences(_, _)
OldSentences(origs, mod) ==
    IF origs = <<>> THEN <<>>
    ELSE Repeat(Head(origs), ContainedIn(Head(origs), mod))
            \o OldSentences(Tail(origs), mod)

\* lines 293-306: new_sentences
RECURSIVE DerivedFrom(_, _)
DerivedFrom(orig, modifs) ==
    IF modifs = <<>> THEN <<>>
    ELSE <<Derived(orig, Head(modifs))>> \o DerivedFrom(orig, Tail(modifs))

RECURSIVE NewSentences(_, _)
NewSentences(origs, mod) ==
    IF origs = <<>> THEN <<>>
    ELSE DerivedFrom(Head(origs), ContainedIn(Head(origs), mod))
            \o NewSentences(Tail(origs), mod)

\* variant: the test of line 317 is inverted
UnchangedInverted(mod, orig, al) == ~(al \/ ListEq(mod, orig))

\* line 317; al: both names are bound to the same list object (line 321)
Unchanged(mod, orig, al) == al \/ ListEq(mod, orig)

\* variant: the set is replaced by the new cells
MinesAfterReplace(mn, new_mines) == new_mines

\* line 168, for every cell of new_mines (lines 281-282)
MinesAfter(mn, new_mines) == mn \cup new_mines

\* variant: the cells are not added to the set
SafesAfterKeep(sf, new_safes) == sf

\* line 177, for every cell of new_safes (lines 277-278)
SafesAfter(sf, new_safes) == sf \cup new_safes

ClosureStep(orig, mod, al, kn) ==
    LET ns        == NewSafes(orig)
        nm        == NewMines(orig)
        orig1     == ApplyMarks(orig, ns, nm)
        mod1      == ApplyMarks(mod, ns, nm)
        kn1       == ApplyMarks(kn, ns, nm)
        to_remove == ApplyMarks(Resolved(orig), ns, nm)
        r1        == RemoveEach(mod1, to_remove)
        orig2     == IF al THEN r1.list ELSE orig1
        old       == OldSentences(orig2, r1.list)
        new       == NewSentences(orig2, r1.list)
        r2        == RemoveEach(r1.list, old)
        mod3      == r2.list \o new
        raised    == (~r1.ok) \/ (~r2.ok)
    IN  [raised    |-> raised,
         new_safes |-> ns,
         new_mines |-> nm,
         knowledge |-> kn1,
         modified  |-> IF raised THEN <<>> ELSE mod3,
         stop      |-> IF raised THEN FALSE ELSE Unchanged(mod3, orig1, al)]

\* line 323: the sentences of knowledge_modified are those of self.knowledge
RECURSIVE AsKnowledge(_)
AsKnowledge(list) ==
    IF list = <<>> THEN <<>>
    ELSE <<[Head(list) EXCEPT !.kb = TRUE]>> \o AsKnowledge(Tail(list))

\* ------------------------------------------------------------------------
\* State machine

Init ==
    /\ height \in 1 .. MaxH
    /\ width \in 1 .. MaxW
    /\ height * width <= MaxCells
    /\ board \in { b \in SUBSET Cells(height, width) : Cardinality(b) <= MaxMines }
    /\ moves_made = {}
    /\ mines = {}
    /\ safes = {}
    /\ knowledge = <<>>
    /\ knowledge_original = <<>>
    /\ knowledge_modified = <<>>
    /\ aliased = FALSE
    /\ pc = "idle"
    /\ iter = 0
    /\ calls = 0
    /\ ret = None
    /\ last_call = "init"
    /\ closure_start = <<>>
    /\ arg = None

\* add_knowledge(cell, count) up to the entry of the while loop, for a
\* mine-free cell not yet played and its true clue
AddKnowledge(cell) ==
    /\ pc = "idle"
    /\ cell \in Cells(height, width)
    /\ ~is_mine(cell)
    /\ cell \notin moves_made
    /\ moves_made' = moves_made \cup {cell}
    /\ safes' = SafesAfter(safes, {cell})
    /\ knowledge' = Append(MarkSafeList(knowledge, cell),
                           NewSentence(cell, nearby_mines(cell), safes', mines, height, width))
    /\ knowledge_original' = knowledge'
    /\ knowledge_modified' = knowledge'
    /\ closure_start' = knowledge'
    /\ aliased' = FALSE
    /\ pc' = "closure"
    /\ iter' = 0
    /\ calls' = calls + 1
    /\ ret' = None
    /\ last_call' = "add_knowledge"
    /\ arg' = cell
    /\ UNCHANGED <<height, width, board, mines>>

\* one iteration of the while loop of add_knowledge; leaves the call by
\* break (line 318, then line 323) or by the ValueError of list.remove
ClosureIteration ==
    /\ pc = "closure"
    /\ iter < MaxIter
    /\ \E r \in {ClosureStep(knowledge_original, knowledge_modified, aliased, knowledge)} :
           /\ safes' = SafesAfter(safes, r.new_safes)
           /\ mines' = MinesAfter(mines, r.new_mines)
           /\ IF r.raised
              THEN /\ pc' = "raised"
                   /\ knowledge' = r.knowledge
                   /\ knowledge_original' = <<>>
                   /\ knowledge_modified' = <<>>
                   /\ aliased' = FALSE
              ELSE IF r.stop
              THEN /\ pc' = "idle"
                   /\ knowledge' = AsKnowledge(r.modified)
                   /\ knowledge_original' = <<>>
                   /\ knowledge_modified' = <<>>
                   /\ aliased' = FALSE
              ELSE /\ pc' = "closure"
                   /\ knowledge' = r.knowledge
                   /\ knowledge_original' = r.modified
                   /\ knowledge_modified' = r.modified
                   /\ aliased' = TRUE
    /\ iter' = iter + 1
    /\ UNCHANGED <<height, width, board, moves_made, calls, ret, last_call, closure_start, arg>>

\* variant: the moves already made are not filtered out
SafeOptionsAll(sf, mm) == sf

\* lines 338-342
SafeOptions(sf, mm) == { element \in sf : element \notin mm }

\* make_safe_move, lines 334-347
MakeSafeMove ==
    /\ pc = "idle"
    /\ IF safes = {}
       THEN ret' = None
       ELSE LET options == SafeOptions(safes, moves_made)
            IN  IF options = {} THEN ret' = None ELSE ret' \in options
    /\ last_call' = "make_safe_move"
    /\ arg' = None
    /\ UNCHANGED <<height, width, board, moves_made, mines, safes, knowledge,
                   knowledge_original, knowledge_modified, aliased, pc, iter,
                   calls, closure_start>>

\* line 358: the end-game test
EndGame(mn, sf, h, w) == Cardinality(mn) + Cardinality(sf) = h * w

\* variant: a cell known to be a mine is not refused
MoveAcceptedAny(move, mm, mn) == move \notin mm

\* line 365: the test a drawn move has to pass
MoveAccepted(move, mm, mn) == move \notin mm /\ move \notin mn

\* make_random_move, lines 356-366: one pass of its while loop
MakeRandomMove ==
    /\ pc \in {"idle", "random"}
    /\ IF EndGame(mines, safes, height, width)
       THEN ret' = None /\ pc' = "idle"
       ELSE \E move \in Cells(height, width) :
                IF MoveAccepted(move, moves_made, mines)
                THEN ret' = move /\ pc' = "idle"
                ELSE ret' = None /\ pc' = "random"
    /\ last_call' = "make_random_move"
    /\ arg' = None
    /\ UNCHANGED <<height, width, board, moves_made, mines, safes, knowledge,
                   knowledge_original, knowledge_modified, aliased, iter,
                   calls, closure_start>>

Next ==
    \/ \E cell \in Cells(MaxH, MaxW) : calls < MaxObs /\ AddKnowledge(cell)
    \/ ClosureIteration
    \/ MakeSafeMove
    \/ MakeRandomMove

Spec == Init /\ [][Next]_vars

\* a pass of the loop of make_random_move whose draw is accepted
RandomDraw == pc = "random" /\ MakeRandomMove /\ pc' = "idle"

\* the random source of make_random_move (random.randrange, lines 361-362)
\* is fair: a draw that can be accepted is not missed for ever
FairSpec == Spec /\ WF_vars(RandomDraw)

\* ------------------------------------------------------------------------
\* Longer games: add_knowledge is called up to LongObs times on a board of
\* LongH x LongW cells whose mines, at most LongMines, lie off the left and
\* right edge; the move-selection queries, which change nothing, are left
\* out.

LongInit ==
    /\ height = LongH
    /\ width = LongW
    /\ board \in { b \in SUBSET { c \in Cells(height, width) : 0 < c[2] /\ c[2] < width - 1 } :
                       Cardinality(b) <= LongMines }
    /\ moves_made = {}
    /\ mines = {}
    /\ safes = {}
    /\ knowledge = <<>>
    /\ knowledge_original = <<>>
    /\ knowledge_modified = <<>>
    /\ aliased = FALSE
    /\ pc = "idle"
    /\ iter = 0
    /\ calls = 0
    /\ ret = None
    /\ last_call = "init"
    /\ closure_start = <<>>
    /\ arg = None

LongNext ==
    \/ \E cell \in Cells(LongH, LongW) : calls < LongObs /\ AddKnowledge(cell)
    \/ ClosureIteration

LongSpec == LongInit /\ [][LongNext]_vars

\* ------------------------------------------------------------------------
\* A Sentence object on its own: the list knowledge holds the one object,
\* any cell set of a one-row board with any count, and its four methods are
\* called on it in any order.

SentenceInit ==
    /\ height = 1
    /\ width = MaxSentenceCells
    /\ board = {}
    /\ moves_made = {}
    /\ mines = {}
    /\ safes = {}
    /\ knowledge \in { <<Sentence(cells, count, TRUE)>> :
                          cells \in SUBSET Cells(height, width),
                          count \in -1 .. MaxSentenceCells + 1 }
    /\ knowledge_original = <<>>
    /\ knowledge_modified = <<>>
    /\ aliased = FALSE
    /\ pc = "idle"
    /\ iter = 0
    /\ calls = 0
    /\ ret = None
    /\ last_call = "init"
    /\ closure_start = <<>>
    /\ arg = None

SentenceFrame ==
    UNCHANGED <<height, width, board, moves_made, mines, safes, knowledge_original,
                knowledge_modified, aliased, pc, iter, calls, closure_start>>

\* sentence.known_mines()
KnownMinesCall ==
    /\ ret' = known_mines(knowledge[1])
    /\ last_call' = "known_mines"
    /\ arg' = None
    /\ UNCHANGED knowledge
    /\ SentenceFrame

\* sentence.known_safes()
KnownSafesCall ==
    /\ ret' = known_safes(knowledge[1])
    /\ last_call' = "known_safes"
    /\ arg' = None
    /\ UNCHANGED knowledge
    /\ SentenceFrame

\* sentence.mark_mine(cell)
SentenceMarkMineCall(cell) ==
    /\ knowledge' = <<SentenceMarkMine(knowledge[1], cell)>>
    /\ ret' = None
    /\ last_call' = "Sentence.mark_mine"
    /\ arg' = cell
    /\ SentenceFrame

\* sentence.mark_safe(cell)
SentenceMarkSafeCall(cell) ==
    /\ knowledge' = <<SentenceMarkSafe(knowledge[1], cell)>>
    /\ ret' = None
    /\ last_call' = "Sentence.mark_safe"
    /\ arg' = cell
    /\ SentenceFrame

SentenceNext ==
    \/ KnownMinesCall
    \/ KnownSafesCall
    \/ \E cell \in Cells(height, width) : SentenceMarkMineCall(cell)
    \/ \E cell \in Cells(height, width) : SentenceMarkSafeCall(cell)

SentenceSpec == SentenceInit /\ [][SentenceNext]_vars

\* ------------------------------------------------------------------------
\* MinesweeperAI.mark_mine / mark_safe called on their own: a knowledge base
\* over a one-row board whose list holds no, one or two sentences with
\* 0 <= count <= |cells|, and the two methods called with any cell in any
\* order.

MarkInit ==
    /\ height = 1
    /\ width = MaxMarkCells
    /\ board = {}
    /\ moves_made = {}
    /\ mines = {}
    /\ safes = {}
    /\ \E drawn \in { Sentence(cells, count, TRUE) :
                          cells \in SUBSET Cells(height, width), count \in 0 .. MaxMarkCells } :
           /\ drawn.count <= Cardinality(drawn.cells)
           /\ \E other \in { Sentence(cells, count, TRUE) :
                                 cells \in SUBSET Cells(height, width), count \in 0 .. MaxMarkCells } :
                  /\ other.count <= Cardinality(other.cells)
                  /\ knowledge \in {<<>>, <<drawn>>, <<drawn, other>>}
    /\ knowledge_original = <<>>
    /\ knowledge_modified = <<>>
    /\ aliased = FALSE
    /\ pc = "idle"
    /\ iter = 0
    /\ calls = 0
    /\ ret = None
    /\ last_call = "init"
    /\ closure_start = <<>>
    /\ arg = None

MarkFrame ==
    UNCHANGED <<height, width, board, moves_made, knowledge_original,
                knowledge_modified, aliased, pc, iter, calls, closure_start>>

\* MinesweeperAI.mark_mine(cell), lines 163-170
AIMarkMine(cell) ==
    /\ mines' = MinesAfter(mines, {cell})
    /\ knowledge' = MarkMineList(knowledge, cell)
    /\ ret' = None
    /\ last_call' = "mark_mine"
    /\ arg' = cell
    /\ UNCHANGED safes
    /\ MarkFrame

\* MinesweeperAI.mark_safe(cell), lines 172-179
AIMarkSafe(cell) ==
    /\ safes' = SafesAfter(safes, {cell})
    /\ knowledge' = MarkSafeList(knowledge, cell)
    /\ ret' = None
    /\ last_call' = "mark_safe"
    /\ arg' = cell
    /\ UNCHANGED mines
    /\ MarkFrame

MarkNext ==
    \/ \E cell \in Cells(height, width) : AIMarkMine(cell)
    \/ \E cell \in Cells(height, width) : AIMarkSafe(cell)

MarkSpec == MarkInit /\ [][MarkNext]_vars

\* ------------------------------------------------------------------------
\* Properties

Returned == pc = "idle" /\ last_call = "add_knowledge"

\* C1: soundness.  Whenever an add_knowledge call has returned, every cell
\* of self.mines is a mine of the board and no cell of self.safes is one.
C1_Soundness ==
    pc = "idle" => (mines \subseteq board /\ safes \cap board = {})

C1_Witness ==
    /\ Returned
    /\ calls >= 2
    /\ mines # {}
    /\ safes \ moves_made # {}

\* C2: totality.  No add_knowledge call with a truthful clue raises; every
\* list.remove of the closure finds its sentence.
C2_NoException == pc # "raised"

\* C3: fixed point on return.  When add_knowledge has returned, no sentence
\* of self.knowledge with cells is all-safe or all-mines and no sentence is
\* strictly contained in another.
C3_FixedPoint ==
    pc = "idle" =>
        /\ \A i \in 1 .. Len(knowledge) :
              knowledge[i].cells # {} =>
                  /\ knowledge[i].count # 0
                  /\ knowledge[i].count # Cardinality(knowledge[i].cells)
        /\ \A i, j \in 1 .. Len(knowledge) : ~IsContained(knowledge[j], knowledge[i])

\* C4: disjointness.  In every state, also between the iterations of the
\* closure loop, self.mines and self.safes have no cell in common.
C4_Disjoint == mines \cap safes = {}

C4_Witness ==
    /\ pc = "closure"
    /\ iter = 1
    /\ mines # {}
    /\ safes \ moves_made # {}

\* C5: monotonicity.  No step of add_knowledge, make_safe_move or
\* make_random_move removes a cell from self.mines, self.safes or
\* self.moves_made.
C5_Monotonic ==
    [][/\ mines \subseteq mines'
       /\ safes \subseteq safes'
       /\ moves_made \subseteq moves_made']_vars

C5_Witness ==
    /\ Returned
    /\ calls = MaxObs
    /\ iter = 2
    /\ mines # {}
    /\ Cardinality(safes) > Cardinality(moves_made)

\* C6: direct resolution.  When add_knowledge has returned, the cells of
\* every sentence that was all-mines when the closure started are in
\* self.mines and the cells of every sentence that was all-safe are in
\* self.safes; on the 1x3 row with its mine at (0,2), once (0,0) and (0,1)
\* are observed, self.mines is {(0,2)}.
C6_DirectResolution ==
    pc = "idle" =>
        /\ \A i \in 1 .. Len(closure_start) :
              /\ closure_start[i].count = Cardinality(closure_start[i].cells)
                    => closure_start[i].cells \subseteq mines
              /\ closure_start[i].count = 0
                    => closure_start[i].cells \subseteq safes
        /\ (/\ height = 1
            /\ width = 3
            /\ board = {<<0, 2>>}
            /\ moves_made = {<<0, 0>>, <<0, 1>>}) => mines = {<<0, 2>>}

C6_Witness ==
    /\ Returned
    /\ calls >= 2
    /\ \E i \in 1 .. Len(closure_start) :
          /\ Cardinality(closure_start[i].cells) >= 2
          /\ closure_start[i].count = Cardinality(closure_start[i].cells)

\* C7: subsumption derivation.  For every pair A, B of the sentences the
\* closure started with, B.cells a strict subset of A.cells, the closure
\* carries the replacement of A out (it does not fail), and on return the
\* cells of A.cells - B.cells are in self.safes when the counts are equal
\* and in self.mines when the difference of the counts is their number.
C7_Subsumption ==
    \A i, j \in 1 .. Len(closure_start) :
        IsContained(closure_start[j], closure_start[i]) =>
            LET A    == closure_start[i]
                B    == closure_start[j]
                rest == A.cells \ B.cells
            IN  /\ pc # "raised"
                /\ pc = "idle" =>
                      /\ A.count = B.count => rest \subseteq safes
                      /\ A.count - B.count = Cardinality(rest) => rest \subseteq mines

\* C8: reduced constraints on return.  When add_knowledge has returned, no
\* sentence of self.knowledge holds a cell of self.mines or self.safes.
C8_Reduced ==
    pc = "idle" =>
        \A i \in 1 .. Len(knowledge) :
            knowledge[i].cells \cap (mines \cup safes) = {}

C10_SafeMove ==
    [][last_call' = "make_safe_move" =>
          /\ ret' = None <=> safes \ moves_made = {}
          /\ ret' # None => ret' \in safes \ moves_made
          /\ pc' = "idle"
          /\ UNCHANGED <<mines, safes, moves_made, knowledge>>]_vars

C10_Witness ==
    /\ last_call = "make_safe_move"
    /\ ret \in safes \ moves_made
    /\ moves_made # {}
    /\ mines # {}

\* C11: make_random_move changes nothing of the knowledge base; it returns
\* None exactly when mines and safes together cover every cell of the
\* board; a cell it returns is on the board and neither in moves_made nor
\* in mines; and, the random source being fair, no call stays in its loop
\* for ever (again and again the state is one outside the loop).
C11_RandomMove ==
    /\ [][last_call' = "make_random_move" =>
            LET covered == mines \cup safes = Cells(height, width)
            IN  /\ UNCHANGED <<height, width, board, moves_made, mines, safes, knowledge>>
                /\ pc' \in {"idle", "random"}
                /\ covered => (pc' = "idle" /\ ret' = None)
                /\ pc' = "idle" /\ ret' = None => covered
                /\ pc' = "idle" /\ ret' # None =>
                       /\ ret' \in Cells(height, width)
                       /\ ret' \notin moves_made
                       /\ ret' \notin mines]_vars
    /\ []<>(pc # "random")

C11_Witness ==
    /\ last_call = "make_random_move"
    /\ pc = "idle"
    /\ ret # None
    /\ mines # {}
    /\ moves_made # {}
    /\ ret \notin safes

\* C12: for a Sentence with 0 <= count <= |cells|, known_mines() returns
\* the cells when count = |cells| and the empty set otherwise, and
\* known_safes() returns the cells when count = 0 and the empty set
\* otherwise.
C12_Resolution ==
    last_call \in {"known_mines", "known_safes"} =>
        LET s == knowledge[1]
        IN  (0 <= s.count /\ s.count <= Cardinality(s.cells)) =>
                /\ last_call = "known_mines" /\ s.count = Cardinality(s.cells) => ret = s.cells
                /\ last_call = "known_mines" /\ s.count # Cardinality(s.cells) => ret = {}
                /\ last_call = "known_safes" /\ s.count = 0 => ret = s.cells
                /\ last_call = "known_safes" /\ s.count # 0 => ret = {}

C12_Witness ==
    /\ last_call = "known_mines"
    /\ knowledge[1].count = Cardinality(knowledge[1].cells)
    /\ Cardinality(ret) >= 2

\* C13: Sentence.mark_mine applied a second time in a row with the same
\* cell changes nothing, likewise Sentence.mark_safe; and either of them
\* applied with a cell that is not in the cells changes neither the cells
\* nor the count.
C13_Idempotent ==
    [][last_call' \in {"Sentence.mark_mine", "Sentence.mark_safe"} =>
          /\ last_call = last_call' /\ arg = arg' => knowledge' = knowledge
          /\ arg' \notin knowledge[1].cells => knowledge' = knowledge]_vars

C13_Witness ==
    /\ last_call = "Sentence.mark_mine"
    /\ arg \notin knowledge[1].cells
    /\ knowledge[1].cells # {}
    /\ knowledge[1].count = Cardinality(knowledge[1].cells)

\* C14: the while loop is left at the end of an iteration only if the
\* sentences at the end of that iteration are, as a set of (cells, count)
\* pairs, the sentences the iteration started with; an iteration that
\* resolved, reduced, removed or derived something is followed by another.
C14_StopCondition ==
    [][pc = "closure" /\ pc' = "idle" =>
          LET pairs(list) == { <<list[i].cells, list[i].count>> : i \in 1 .. Len(list) }
          IN  pairs(knowledge') = pairs(knowledge_original)]_vars

\* C15: when add_knowledge has returned, no sentence of self.knowledge has
\* an empty cell set.
C15_NoEmpty ==
    Returned => \A i \in 1 .. Len(knowledge) : knowledge[i].cells # {}

\* C16: in every state, between the iterations of the while loop included,
\* every sentence of self.knowledge and of the two working lists of
\* add_knowledge (the derived sentences among them) has
\* 0 <= count <= |cells|.
C16_CountBounds ==
    \A list \in {knowledge, knowledge_original, knowledge_modified} :
        \A i \in 1 .. Len(list) :
            0 <= list[i].count /\ list[i].count <= Cardinality(list[i].cells)

C16_Witness ==
    /\ pc = "closure"
    /\ mines # {}
    /\ \E i \in 1 .. Len(knowledge_modified) :
           /\ ~knowledge_modified[i].kb
           /\ knowledge_modified[i].count >= 1
           /\ Cardinality(knowledge_modified[i].cells) >= 2

\* C17: the sentence add_knowledge appends before the while loop has as
\* cells the cells of the board at Chebyshev distance 1 from the observed
\* cell that are in neither safes nor mines (the observed cell already
\* marked safe), and as count the clue minus the number of those
\* neighbours that are in mines.
C17_NewSentence ==
    pc = "closure" /\ iter = 0 =>
        LET abs(x) == IF x < 0 THEN 0 - x ELSE x
            dist(c, d) == IF abs(c[1] - d[1]) > abs(c[2] - d[2])
                          THEN abs(c[1] - d[1]) ELSE abs(c[2] - d[2])
            near == { c \in Cells(height, width) : dist(c, arg) = 1 }
            new == knowledge[Len(knowledge)]
        IN  /\ arg \in safes
            /\ new.cells = near \ (safes \cup mines)
            /\ new.count = nearby_mines(arg) - Cardinality(near \cap mines)

C17_Witness ==
    /\ pc = "closure"
    /\ iter = 0
    /\ knowledge[Len(knowledge)].cells # {}
    /\ knowledge[Len(knowledge)].count < nearby_mines(arg)
    /\ Neighbors(arg, height, width) \cap safes # {}

\* C18: when add_knowledge has returned, every cell of moves_made is in
\* safes, and the cell observed by the call is in both sets.
C18_MovesSafe ==
    pc = "idle" =>
        /\ moves_made \subseteq safes
        /\ last_call = "add_knowledge" => arg \in moves_made /\ arg \in safes

C18_Witness ==
    /\ Returned
    /\ Cardinality(moves_made) >= 2
    /\ safes # moves_made
    /\ arg \in moves_made

\* C19: MinesweeperAI.mark_mine(cell) adds the cell to mines, takes it out
\* of every sentence of self.knowledge that contains it, decrementing that
\* sentence's count, and changes nothing else: safes, moves_made, the
\* number of sentences and the other sentences stay as they are and no
\* other cell enters mines.  mark_safe(cell) likewise with safes, the
\* counts staying as they are.
C19_MarkFrame ==
    [][/\ last_call' = "mark_mine" =>
             /\ mines' = mines \cup {arg'}
             /\ UNCHANGED <<safes, moves_made, height, width, board>>
             /\ Len(knowledge') = Len(knowledge)
             /\ \A i \in 1 .. Len(knowledge) :
                    IF arg' \in knowledge[i].cells
                    THEN /\ knowledge'[i].cells = knowledge[i].cells \ {arg'}
                         /\ knowledge'[i].count = knowledge[i].count - 1
                    ELSE knowledge'[i] = knowledge[i]
       /\ last_call' = "mark_safe" =>
             /\ safes' = safes \cup {arg'}
             /\ UNCHANGED <<mines, moves_made, height, width, board>>
             /\ Len(knowledge') = Len(knowledge)
             /\ \A i \in 1 .. Len(knowledge) :
                    IF arg' \in knowledge[i].cells
                    THEN /\ knowledge'[i].cells = knowledge[i].cells \ {arg'}
                         /\ knowledge'[i].count = knowledge[i].count
                    ELSE knowledge'[i] = knowledge[i]]_vars

C19_Witness ==
    /\ last_call = "mark_mine"
    /\ Len(knowledge) >= 2
    /\ knowledge[1].count < 0
    /\ knowledge[2].count < 0
    /\ safes # {}

\* C20: in every state, between the iterations of the while loop included,
\* every sentence of self.knowledge and of the two working lists of
\* add_knowledge is true of the board: the number of mines among its
\* cells is its count.
C20_Truth ==
    \A list \in {knowledge, knowledge_original, knowledge_modified} :
        \A i \in 1 .. Len(list) :
            Cardinality({ c \in list[i].cells : is_mine(c) }) = list[i].count

C20_Witness ==
    /\ pc = "closure"
    /\ iter = 1
    /\ safes # moves_made
    /\ \E i \in 1 .. Len(knowledge_modified) :
           /\ ~knowledge_modified[i].kb
           /\ knowledge_modified[i].count >= 1
    /\ \E i \in 1 .. Len(knowledge) :
           /\ knowledge[i].count >= 1
           /\ knowledge[i] # closure_start[i]

====
